---------------------------- MODULE Spec2Model ----------------------------
(***************************************************************************)
(* Model of tree_builder.py: EmployeeNode, TeamTree.insert,                *)
(* TeamTree.print_tree and the part of company_directory that sets the     *)
(* root.                                                                   *)
(*                                                                         *)
(* Text is modelled as a sequence of one-character strings, so that        *)
(* str.strip(), str.lower() and str.upper() are computed character by      *)
(* character.  Python's None is the value None below.                      *)
(*                                                                         *)
(* The heap maps the address of every live EmployeeNode to its three       *)
(* fields.  The program never orders or prints addresses, it only follows  *)
(* and compares them (`is`), so the allocator's choice is immaterial; a    *)
(* new node takes the address NewAddr of the slot it is created for, which *)
(* is unused because that slot is empty.                                   *)
(***************************************************************************)
EXTENDS Integers, Sequences, FiniteSets, TLC

VARIABLES root,   \* TeamTree.root: None or the address of the root node
          heap,   \* address -> [name, left, right] of every live node
          call,   \* the last operation called and its arguments
          pre,    \* root and heap as they were when that operation was called
          ret,    \* what it returned
          out,    \* the status and error lines it printed, in order
          visited, \* the nodes its frames ran on (current_node), in order
          stack   \* the frames of a call that runs step by step, innermost last

vars == <<root, heap, call, pre, ret, out, visited, stack>>

-----------------------------------------------------------------------------
(* Bounds *)

\* Insert is not called on a tree that already has MaxNodes nodes.
MaxNodes == 5

\* The same for the specification of the side validation.
MaxSideNodes == 3

\* The same for the specification of the calls run frame by frame.
MaxStepNodes == 4

\* The largest tree built through the menu loop.
MaxMenuNodes == 3

-----------------------------------------------------------------------------
(* Text *)

None == <<"None">>

Str_left == <<"l", "e", "f", "t">>
Str_right == <<"r", "i", "g", "h", "t">>
Str_y == <<"y">>

UpperLetters == <<"A","B","C","D","E","F","G","H","I","J","K","L","M",
                  "N","O","P","Q","R","S","T","U","V","W","X","Y","Z">>
LowerLetters == <<"a","b","c","d","e","f","g","h","i","j","k","l","m",
                  "n","o","p","q","r","s","t","u","v","w","x","y","z">>

\* The characters str.strip() removes that occur in the inputs.
Whitespace == {" ", "\t", "\n", "\r"}

IndexIn(letters, c) ==
    IF \E i \in 1..Len(letters) : letters[i] = c
    THEN CHOOSE i \in 1..Len(letters) : letters[i] = c
    ELSE 0

LowerChar(c) ==
    IF IndexIn(UpperLetters, c) = 0 THEN c ELSE LowerLetters[IndexIn(UpperLetters, c)]

UpperChar(c) ==
    IF IndexIn(LowerLetters, c) = 0 THEN c ELSE UpperLetters[IndexIn(LowerLetters, c)]

\* str.lower()
Lower(s) == [i \in 1..Len(s) |-> LowerChar(s[i])]

\* str.upper()
Upper(s) == [i \in 1..Len(s) |-> UpperChar(s[i])]

\* str.strip(): drop the leading and the trailing whitespace, keep the inner.
Strip(s) ==
    LET keep == {i \in 1..Len(s) : s[i] \notin Whitespace}
    IN  IF keep = {} THEN <<>>
        ELSE LET lo == CHOOSE i \in keep : \A j \in keep : i <= j
                 hi == CHOOSE i \in keep : \A j \in keep : j <= i
             IN  SubSeq(s, lo, hi)

-----------------------------------------------------------------------------
(* EmployeeNode *)

\* EmployeeNode(name): left and right default to None.
EmployeeNode(name) == [name |-> name, left |-> None, right |-> None]

\* An address is the sequence of slots leading to the node from the root.
\* The address a node created for slot `field` of node `parent` takes.
NewAddr(parent, field) == Append(parent, field)

\* The address the root node takes.
RootAddr == <<>>

-----------------------------------------------------------------------------
(* What insert prints: one record per print call, holding the message's     *)
(* kind and the values its f-string interpolates.                           *)

MsgInvalidSide == [kind |-> "InvalidSide"]

MsgNoRoot == [kind |-> "NoRoot"]

MsgSlotOccupied(manager_name, side_norm, occupant) ==
    [kind |-> "SlotOccupied", manager |-> manager_name,
     side |-> Upper(side_norm), occupant |-> occupant]

MsgManagerNotFound(manager_name) ==
    [kind |-> "ManagerNotFound", manager |-> manager_name]

-----------------------------------------------------------------------------
(* TeamTree.insert *)

\* A variant of SideNorm that does not strip.
SideNormNoStrip(side) == Lower(side)

\* side.strip().lower()
SideNorm(side) == Lower(Strip(side))

\* side_norm in ("left", "right")
ValidSide(side_norm) == side_norm \in {Str_left, Str_right}

\* The attribute getattr/setattr(current_node, side_norm) names.
Field(side_norm) == IF side_norm = Str_left THEN "left" ELSE "right"

\* getattr(current_node, side_norm)
GetAttr(h, node, side_norm) == h[node][Field(side_norm)]

\* A variant of SetChild that fills the other slot.
SetChildOtherSlot(h, current_node, side_norm, employee_name) ==
    LET f == IF Field(side_norm) = "left" THEN "right" ELSE "left"
        a == NewAddr(current_node, f)
    IN  [n \in DOMAIN h \cup {a} |->
            IF n = a THEN EmployeeNode(employee_name)
            ELSE IF n = current_node THEN [h[n] EXCEPT ![f] = a]
            ELSE h[n]]

\* A variant of SetChild that points the slot at current_node itself and
\* creates no node.
SetChildSelf(h, current_node, side_norm, employee_name) ==
    [h EXCEPT ![current_node][Field(side_norm)] = current_node]

\* setattr(current_node, side_norm, EmployeeNode(employee_name)): the new node
\* is allocated and the slot of current_node is pointed at it.
SetChild(h, current_node, side_norm, employee_name) ==
    LET f == Field(side_norm)
        a == NewAddr(current_node, f)
    IN  [n \in DOMAIN h \cup {a} |->
            IF n = a THEN EmployeeNode(employee_name)
            ELSE IF n = current_node THEN [h[n] EXCEPT ![f] = a]
            ELSE h[n]]

\* A variant of AtManager that renames the occupant of an occupied slot
\* before it fails.
AtManagerOverwrite(st, manager_name, employee_name, side_norm, current_node) ==
    LET target_child == GetAttr(st.heap, current_node, side_norm)
    IN  IF target_child # None
        THEN [st EXCEPT !.ret = FALSE,
                        !.heap = [@ EXCEPT ![target_child].name = employee_name],
                        !.out = Append(@, MsgSlotOccupied(manager_name, side_norm,
                                                          st.heap[target_child].name))]
        ELSE [st EXCEPT !.ret = TRUE,
                        !.heap = SetChild(@, current_node, side_norm, employee_name)]

\* A variant of AtManager that does not look at the slot before it attaches.
AtManagerReplace(st, manager_name, employee_name, side_norm, current_node) ==
    [st EXCEPT !.ret = TRUE,
               !.heap = SetChild(@, current_node, side_norm, employee_name)]

\* The branch taken when current_node is the manager: fail on an occupied
\* slot, otherwise attach and succeed.
AtManager(st, manager_name, employee_name, side_norm, current_node) ==
    LET target_child == GetAttr(st.heap, current_node, side_norm)
    IN  IF target_child # None
        THEN [st EXCEPT !.ret = FALSE,
                        !.out = Append(@, MsgSlotOccupied(manager_name, side_norm,
                                                          st.heap[target_child].name))]
        ELSE [st EXCEPT !.ret = TRUE,
                        !.heap = SetChild(@, current_node, side_norm, employee_name)]

\* A variant of NotFound that prints the message in every frame.
NotFoundEveryFrame(st, r, manager_name, current_node) ==
    [st EXCEPT !.ret = FALSE, !.out = Append(@, MsgManagerNotFound(manager_name))]

\* The end of a frame whose node is not the manager and whose subtrees
\* returned False: the message is printed in the frame of the root only.
NotFound(st, r, manager_name, current_node) ==
    [st EXCEPT !.ret = FALSE,
               !.out = IF current_node = r
                       THEN Append(@, MsgManagerNotFound(manager_name))
                       ELSE @]

\* The early return on a side that is None or not left or right.
InvalidSideFail(st) == [st EXCEPT !.ret = FALSE, !.out = Append(@, MsgInvalidSide)]

\* A variant of NoRootFail that reports the manager as not found.
NoRootFailAsNotFound(st) ==
    [st EXCEPT !.ret = FALSE, !.out = Append(@, [kind |-> "ManagerNotFound"])]

\* The early return on a tree without a root.
NoRootFail(st) == [st EXCEPT !.ret = FALSE, !.out = Append(@, MsgNoRoot)]

\* One call of insert, recursive calls included.  st holds the heap and the
\* output so far and the nodes visited so far; the result is st after the
\* call, with the value returned in ret.  r is self.root.
RECURSIVE InsertRec(_, _, _, _, _, _)
InsertRec(st, r, manager_name, employee_name, side, node) ==
    IF side = None
    THEN InvalidSideFail(st)
    ELSE
    LET side_norm == SideNorm(side) IN
    IF ~ValidSide(side_norm)
    THEN InvalidSideFail(st)
    ELSE IF r = None
    THEN NoRootFail(st)
    ELSE
    LET current_node == IF node = None THEN r ELSE node
        here == [st EXCEPT !.visited = Append(@, current_node)]
    IN
    IF here.heap[current_node].name = manager_name
    THEN AtManager(here, manager_name, employee_name, side_norm, current_node)
    ELSE
    LET l == IF here.heap[current_node].left # None
             THEN InsertRec(here, r, manager_name, employee_name, side_norm,
                            here.heap[current_node].left)
             ELSE [here EXCEPT !.ret = FALSE]
    IN
    IF l.ret THEN l
    ELSE
    LET rt == IF l.heap[current_node].right # None
              THEN InsertRec(l, r, manager_name, employee_name, side_norm,
                             l.heap[current_node].right)
              ELSE [l EXCEPT !.ret = FALSE]
    IN
    IF rt.ret THEN rt
    ELSE NotFound(rt, r, manager_name, current_node)

\* tree.insert(manager_name, employee_name, side) as a caller calls it.
InsertCall(h, r, manager_name, employee_name, side) ==
    InsertRec([heap |-> h, out |-> <<>>, visited |-> <<>>, ret |-> FALSE],
              r, manager_name, employee_name, side, None)

-----------------------------------------------------------------------------
(* TeamTree.print_tree *)

\* The indent of one level.
IndentUnit == <<" ", " ">>

\* A variant of Indent that indents by one character per level.
IndentOneChar(level) == [i \in 1..level |-> " "]

\* "  " * level
Indent(level) ==
    [i \in 1..(Len(IndentUnit) * level) |-> IndentUnit[((i - 1) % Len(IndentUnit)) + 1]]

\* f"{indent}- {node.name}"
NodeLine(level, name) == [kind |-> "Node", text |-> Indent(level) \o <<"-", " ">> \o name]

\* "(empty team)"
EmptyLine == [kind |-> "Empty"]

\* A variant of AtNone that prints the placeholder at every level.
AtNoneAnyLevel(r, level) == <<EmptyLine>>

\* What a call with node None prints before it returns: the placeholder at
\* level 0 on a tree without a root, nothing at a deeper level.
AtNone(r, level) == IF level = 0 THEN <<EmptyLine>> ELSE <<>>

\* One call of print_tree, recursive calls included: the lines it prints.
RECURSIVE PrintTreeRec(_, _, _, _)
PrintTreeRec(h, r, node, level) ==
    IF node = None /\ (level # 0 \/ r = None) THEN AtNone(r, level)
    ELSE
    LET n == IF node = None THEN r ELSE node   \* node = self.root, at level 0
    IN  <<NodeLine(level, h[n].name)>>
        \o PrintTreeRec(h, r, h[n].left, level + 1)
        \o PrintTreeRec(h, r, h[n].right, level + 1)

-----------------------------------------------------------------------------
(* Inputs *)

Name_A == <<"A">>
Name_B == <<"B">>
Name_C == <<"C">>

\* The names that managers and employees are given.
Names == {Name_A, Name_B, Name_C}

\* The names given to the employees inserted under a team lead named A, in
\* the specification of the larger trees.
EmployeeNames == {Name_B, Name_C}

\* The names given to the employees in the specification of the side
\* validation, the team lead's own names among them.
SideEmployeeNames == {Name_A, Name_B}

\* The side arguments insert is called with.
Sides == { None,
           <<"u", "p">>,
           Str_left,
           <<"R", "i", "g", "h", "t">> }

\* The side arguments of the specification of the side validation.
AllSides == Sides \cup
         { <<>>,
           <<" ">>,
           <<"L", "e", "f", "t">>,
           <<" ", "l", "e", "f", "t", " ">>,
           <<"L", "E", "F", "T">>,
           Str_right,
           <<"\t", "R", "I", "G", "H", "T", "\n">>,
           <<"l", "e", " ", "f", "t">>,
           <<"l", "e", "f", "t", "y">> }

\* What the user types for the team lead's name (option 1).
LeadInputs == { <<" ", "A", " ">>, <<" ">> }

\* The same, in the specification of the side validation.
AllLeadInputs == LeadInputs \cup { Name_B }

\* What the user types at the "Replace it? (y/N)" prompt.
ConfirmInputs == { <<" ", "Y">>, <<"n">> }

-----------------------------------------------------------------------------
(* Operations *)

NoCall == [op |-> "none", manager |-> None, employee |-> None, side |-> None,
           name |-> None, confirm |-> None]

Snapshot == [root |-> root, heap |-> heap]

\* tree = TeamTree()
Init ==
    /\ root = None
    /\ heap = << >>
    /\ call = NoCall
    /\ pre = [root |-> None, heap |-> << >>]
    /\ ret = None
    /\ out = <<>>
    /\ visited = <<>>
    /\ stack = <<>>

\* A variant of Insert that makes the node it attaches the root.
InsertMovesRoot(manager_name, employee_name, side) ==
    /\ LET res == InsertCall(heap, root, manager_name, employee_name, side)
       IN  /\ heap' = res.heap
           /\ ret' = res.ret
           /\ out' = res.out
           /\ visited' = res.visited
           /\ root' = IF res.ret
                      THEN CHOOSE n \in DOMAIN res.heap : n \notin DOMAIN heap
                      ELSE root
    /\ pre' = Snapshot
    /\ call' = [NoCall EXCEPT !.op = "insert", !.manager = manager_name,
                              !.employee = employee_name, !.side = side]

\* tree.insert(manager_name, employee_name, side)
Insert(manager_name, employee_name, side) ==
    /\ LET res == InsertCall(heap, root, manager_name, employee_name, side)
       IN  /\ heap' = res.heap
           /\ ret' = res.ret
           /\ out' = res.out
           /\ visited' = res.visited
    /\ root' = root
    /\ pre' = Snapshot
    /\ call' = [NoCall EXCEPT !.op = "insert", !.manager = manager_name,
                              !.employee = employee_name, !.side = side]

\* A variant of PrintTree that assigns None to self.root where print_tree
\* reads self.root.
PrintTreeDropsRoot ==
    /\ out' = PrintTreeRec(heap, root, None, 0)
    /\ visited' = <<>>
    /\ ret' = None
    /\ pre' = Snapshot
    /\ call' = [NoCall EXCEPT !.op = "print_tree"]
    /\ root' = None
    /\ heap' = << >>

\* tree.print_tree()
PrintTree ==
    /\ out' = PrintTreeRec(heap, root, None, 0)
    /\ visited' = <<>>
    /\ ret' = None
    /\ pre' = Snapshot
    /\ call' = [NoCall EXCEPT !.op = "print_tree"]
    /\ UNCHANGED <<root, heap>>

\* "Name cannot be empty."
MsgNameEmpty == [kind |-> "NameEmpty"]

\* f"{name} added as the team lead."
MsgLeadAdded(name) == [kind |-> "LeadAdded", name |-> name]

\* A variant of AddTeamLead that takes every answer beginning with y, such as
\* yes, for a confirmation.
AddTeamLeadAnyYes(rawName, rawConfirm) ==
    LET name == Strip(rawName)
        confirm == Lower(Strip(rawConfirm))
        asked == name # <<>> /\ root # None
        replace == name # <<>> /\ (root = None \/ (confirm # <<>> /\ confirm[1] = "y"))
    IN  /\ root' = IF replace THEN RootAddr ELSE root
        /\ heap' = IF replace THEN [n \in {RootAddr} |-> EmployeeNode(name)] ELSE heap
        /\ out' = IF name = <<>> THEN <<MsgNameEmpty>>
                  ELSE IF replace THEN <<MsgLeadAdded(name)>>
                  ELSE <<>>
        /\ visited' = <<>>
        /\ ret' = None
        /\ pre' = Snapshot
        /\ call' = [NoCall EXCEPT !.op = "add_team_lead", !.name = rawName,
                                  !.confirm = IF asked THEN rawConfirm ELSE None]

\* company_directory, choice "1": the name is stripped; an empty name, or a
\* confirmation other than y when a root exists, leaves the tree alone;
\* otherwise the root becomes a new node (the old tree is garbage).
AddTeamLead(rawName, rawConfirm) ==
    LET name == Strip(rawName)
        confirm == Lower(Strip(rawConfirm))
        asked == name # <<>> /\ root # None
        replace == name # <<>> /\ (root = None \/ confirm = Str_y)
    IN  /\ root' = IF replace THEN RootAddr ELSE root
        /\ heap' = IF replace THEN [n \in {RootAddr} |-> EmployeeNode(name)] ELSE heap
        /\ out' = IF name = <<>> THEN <<MsgNameEmpty>>
                  ELSE IF replace THEN <<MsgLeadAdded(name)>>
                  ELSE <<>>
        /\ visited' = <<>>
        /\ ret' = None
        /\ pre' = Snapshot
        /\ call' = [NoCall EXCEPT !.op = "add_team_lead", !.name = rawName,
                                  !.confirm = IF asked THEN rawConfirm ELSE None]

\* The callers' steps: any of the three operations, with any of the inputs.
Next ==
    \/ \E m \in Names, e \in EmployeeNames, s \in Sides :
          Cardinality(DOMAIN heap) < MaxNodes /\ Insert(m, e, s) /\ UNCHANGED stack
    \/ PrintTree /\ UNCHANGED stack
    \/ \E n \in LeadInputs, c \in ConfirmInputs : AddTeamLead(n, c) /\ UNCHANGED stack

Spec == Init /\ [][Next]_vars

\* The same steps on small trees, with every side argument and every name.
SideNext ==
    \/ \E m \in Names, e \in SideEmployeeNames, s \in AllSides :
          Cardinality(DOMAIN heap) < MaxSideNodes /\ Insert(m, e, s) /\ UNCHANGED stack
    \/ PrintTree /\ UNCHANGED stack
    \/ \E n \in AllLeadInputs, c \in ConfirmInputs : AddTeamLead(n, c) /\ UNCHANGED stack

SideSpec == Init /\ [][SideNext]_vars

-----------------------------------------------------------------------------
(* company_directory: the menu loop *)

\* What the user types for the team lead's name in the menu loop.
MenuLeadInputs == { <<" ", "A", " ">>, Name_B, <<" ">>, <<>> }

\* What the user types at the "Replace it? (y/N)" prompt in the menu loop.
MenuConfirmInputs == { Str_y, <<" ", "Y">>, <<"Y", " ">>, <<"n">>, <<"N">>, <<>>,
                       <<"y", "e", "s">>, <<"y", " ", "y">> }

\* What the user types for the manager's and the employee's name.
MenuManagerInputs == { Name_A, <<" ", "B">> }

MenuEmployeeInputs == { <<"B", " ">>, Name_C }

\* What the user types for the side.
MenuSideInputs == { <<" ", "L", "E", "F", "T">>, Str_right, <<"u", "p">> }

\* "Please add a team lead first (option 1)."
MsgAddLeadFirst == [kind |-> "AddLeadFirst"]

\* f"{employee} added to the {side.upper()} of {manager}"
MsgEmployeeAdded(employee, side, manager) ==
    [kind |-> "EmployeeAdded", employee |-> employee, side |-> Upper(side),
     manager |-> manager]

\* "Current Team Structure:" and the empty line print() writes after the tree.
MsgStructureHeader == [kind |-> "StructureHeader"]

BlankLine == <<>>

\* company_directory, choice "2": without a team lead nothing is read and
\* insert is not called; otherwise the three answers are normalised, insert
\* is called and its success is reported.
AddEmployee(rawManager, rawEmployee, rawSide) ==
    IF root = None
    THEN /\ out' = <<MsgAddLeadFirst>>
         /\ visited' = <<>>
         /\ ret' = None
         /\ pre' = Snapshot
         /\ call' = [NoCall EXCEPT !.op = "add_employee"]
         /\ UNCHANGED <<root, heap>>
    ELSE
    LET manager == Strip(rawManager)
        employee == Strip(rawEmployee)
        side == Lower(Strip(rawSide))
        res == InsertCall(heap, root, manager, employee, side)
    IN  /\ heap' = res.heap
        /\ ret' = res.ret
        /\ out' = IF res.ret
                  THEN Append(res.out, MsgEmployeeAdded(employee, side, manager))
                  ELSE res.out
        /\ visited' = res.visited
        /\ root' = root
        /\ pre' = Snapshot
        /\ call' = [NoCall EXCEPT !.op = "add_employee", !.manager = rawManager,
                                  !.employee = rawEmployee, !.side = rawSide]

\* company_directory, choice "3".
ShowStructure ==
    /\ out' = <<MsgStructureHeader>> \o PrintTreeRec(heap, root, None, 0) \o <<BlankLine>>
    /\ visited' = <<>>
    /\ ret' = None
    /\ pre' = Snapshot
    /\ call' = [NoCall EXCEPT !.op = "show_structure"]
    /\ UNCHANGED <<root, heap>>

\* One turn of the loop: the user picks option 1, 2 or 3 and answers its
\* prompts.
MenuNext ==
    \/ \E n \in MenuLeadInputs, c \in MenuConfirmInputs :
          AddTeamLead(n, c) /\ UNCHANGED stack
    \/ \E m \in MenuManagerInputs, e \in MenuEmployeeInputs, s \in MenuSideInputs :
          /\ Cardinality(DOMAIN heap) < MaxMenuNodes
          /\ AddEmployee(m, e, s)
          /\ UNCHANGED stack
    \/ ShowStructure /\ UNCHANGED stack

MenuSpec == Init /\ [][MenuNext]_vars

-----------------------------------------------------------------------------
(* insert and print_tree run frame by frame.  A frame is one activation of  *)
(* the method: its node (current_node once line 52 has run), its side       *)
(* argument, its level, and pc: "enter" before its first line, "left" while *)
(* its call on the left child runs, "right" while its call on the right     *)
(* child runs.  A frame that returns leaves its value in ret.               *)

Frame(fn, node, side, level) ==
    [fn |-> fn, node |-> node, side |-> side, level |-> level, pc |-> "enter"]

Top == stack[Len(stack)]

Callers == SubSeq(stack, 1, Len(stack) - 1)

\* The heap and the output of the call so far, as the frames of insert see them.
Now == [heap |-> heap, out |-> out, visited |-> visited, ret |-> FALSE]

\* The top frame returns: st holds what it leaves behind.  (The singleton
\* quantifier names st's value once.)
Return(st) ==
    \E after \in {st} :
        /\ stack' = Callers
        /\ heap' = after.heap
        /\ out' = after.out
        /\ visited' = after.visited
        /\ ret' = after.ret

\* The top frame, at node current_node, calls itself on node child.
Recurse(st, current_node, side_norm, pc, child) ==
    /\ stack' = Callers \o << [Top EXCEPT !.node = current_node, !.side = side_norm,
                                          !.pc = pc],
                              Frame(Top.fn, child, side_norm, Top.level + 1) >>
    /\ heap' = st.heap
    /\ out' = st.out
    /\ visited' = st.visited
    /\ ret' = ret

\* A variant of SearchRight that searches the left subtree again.
SearchRightGoesLeft(st, current_node, side_norm) ==
    IF st.heap[current_node].left # None
    THEN Recurse(st, current_node, side_norm, "right", st.heap[current_node].left)
    ELSE Return(NotFound(st, root, call.manager, current_node))

\* Lines 68-75 up to the call on the right child: the call if there is a
\* right child, the end of the frame if there is none.
SearchRight(st, current_node, side_norm) ==
    IF st.heap[current_node].right # None
    THEN Recurse(st, current_node, side_norm, "right", st.heap[current_node].right)
    ELSE Return(NotFound(st, root, call.manager, current_node))

\* The caller calls tree.insert(manager_name, employee_name, side).
StartInsert(manager_name, employee_name, side) ==
    /\ stack = <<>>
    /\ stack' = << Frame("insert", None, side, 0) >>
    /\ call' = [NoCall EXCEPT !.op = "insert", !.manager = manager_name,
                              !.employee = employee_name, !.side = side]
    /\ pre' = Snapshot
    /\ out' = <<>>
    /\ visited' = <<>>
    /\ ret' = None
    /\ UNCHANGED <<root, heap>>

\* A frame of insert runs from its first line to its first call or return.
\* side_norm and current_node are the locals of lines 42 and 51-52.
InsertEnter ==
    /\ stack # <<>> /\ Top.fn = "insert" /\ Top.pc = "enter"
    /\ IF Top.side = None
       THEN Return(InvalidSideFail(Now))
       ELSE
       \E side_norm \in {SideNorm(Top.side)} :
       IF ~ValidSide(side_norm)
       THEN Return(InvalidSideFail(Now))
       ELSE IF root = None
       THEN Return(NoRootFail(Now))
       ELSE
       \E current_node \in {IF Top.node = None THEN root ELSE Top.node} :
       LET here == [Now EXCEPT !.visited = Append(@, current_node)]
       IN
       IF heap[current_node].name = call.manager
       THEN Return(AtManager(here, call.manager, call.employee, side_norm, current_node))
       ELSE IF heap[current_node].left # None
       THEN Recurse(here, current_node, side_norm, "left", heap[current_node].left)
       ELSE SearchRight(here, current_node, side_norm)
    /\ UNCHANGED <<root, call, pre>>

\* The call on the left child has returned.
InsertAfterLeft ==
    /\ stack # <<>> /\ Top.fn = "insert" /\ Top.pc = "left"
    /\ IF ret = TRUE
       THEN Return([Now EXCEPT !.ret = TRUE])
       ELSE SearchRight(Now, Top.node, Top.side)
    /\ UNCHANGED <<root, call, pre>>

\* The call on the right child has returned.
InsertAfterRight ==
    /\ stack # <<>> /\ Top.fn = "insert" /\ Top.pc = "right"
    /\ IF ret = TRUE
       THEN Return([Now EXCEPT !.ret = TRUE])
       ELSE Return(NotFound(Now, root, call.manager, Top.node))
    /\ UNCHANGED <<root, call, pre>>

\* The caller calls tree.print_tree().
StartPrintTree ==
    /\ stack = <<>>
    /\ stack' = << Frame("print_tree", None, None, 0) >>
    /\ call' = [NoCall EXCEPT !.op = "print_tree"]
    /\ pre' = Snapshot
    /\ out' = <<>>
    /\ visited' = <<>>
    /\ ret' = None
    /\ UNCHANGED <<root, heap>>

\* A frame of print_tree runs from its first line to its first call or return.
PrintEnter ==
    /\ stack # <<>> /\ Top.fn = "print_tree" /\ Top.pc = "enter"
    /\ IF Top.node = None /\ (Top.level # 0 \/ root = None)
       THEN Return([Now EXCEPT !.out = @ \o AtNone(root, Top.level), !.ret = None])
       ELSE LET n == IF Top.node = None THEN root ELSE Top.node
            IN  Recurse([Now EXCEPT !.out = Append(@, NodeLine(Top.level, heap[n].name)),
                                    !.visited = Append(@, n)],
                        n, None, "left", heap[n].left)
    /\ UNCHANGED <<root, call, pre>>

\* The call on the left child has returned.
PrintAfterLeft ==
    /\ stack # <<>> /\ Top.fn = "print_tree" /\ Top.pc = "left"
    /\ Recurse(Now, Top.node, None, "right", heap[Top.node].right)
    /\ UNCHANGED <<root, call, pre>>

\* The call on the right child has returned.
PrintAfterRight ==
    /\ stack # <<>> /\ Top.fn = "print_tree" /\ Top.pc = "right"
    /\ Return([Now EXCEPT !.ret = None])
    /\ UNCHANGED <<root, call, pre>>

\* One step of the call that is running.
Step ==
    \/ InsertEnter
    \/ InsertAfterLeft
    \/ InsertAfterRight
    \/ PrintEnter
    \/ PrintAfterLeft
    \/ PrintAfterRight

\* The caller makes a call when none is running; a call that runs takes its
\* next step.
StepNext ==
    \/ \E m \in Names, e \in EmployeeNames, s \in Sides :
          Cardinality(DOMAIN heap) < MaxStepNodes /\ StartInsert(m, e, s)
    \/ StartPrintTree
    \/ \E n \in LeadInputs, c \in ConfirmInputs :
          stack = <<>> /\ AddTeamLead(n, c) /\ UNCHANGED stack
    \/ Step

StepSpec == Init /\ [][StepNext]_vars

-----------------------------------------------------------------------------
(* Vocabulary of the properties, defined on the heap and not through the    *)
(* operations' own recursion.                                               *)

\* The nodes of the tree under n in pre-order: n, its left subtree, its
\* right subtree.
RECURSIVE PreOrder(_, _)
PreOrder(h, n) ==
    IF n = None THEN <<>>
    ELSE <<n>> \o PreOrder(h, h[n].left) \o PreOrder(h, h[n].right)

\* The first node named name in pre-order, None if no node has that name.
FirstNamed(h, r, name) ==
    LET po == PreOrder(h, r)
        hits == {i \in 1..Len(po) : h[po[i]].name = name}
    IN  IF hits = {} THEN None
        ELSE po[CHOOSE i \in hits : \A j \in hits : i <= j]

\* The number of links from the root down to node n.
RECURSIVE Depth(_, _, _)
Depth(h, r, n) ==
    IF n = r THEN 0
    ELSE LET parent == CHOOSE q \in DOMAIN h : h[q].left = n \/ h[q].right = n
         IN  1 + Depth(h, r, parent)

\* The side arguments that, trimmed and case-folded, read left, and right.
LeftSpellings == { Str_left,
                   <<"L", "e", "f", "t">>,
                   <<" ", "l", "e", "f", "t", " ">>,
                   <<"L", "E", "F", "T">> }
RightSpellings == { Str_right,
                    <<"R", "i", "g", "h", "t">>,
                    <<"\t", "R", "I", "G", "H", "T", "\n">> }

\* The slot a side argument asks for, "none" if it asks for neither.
SlotOf(side) ==
    IF side \in LeftSpellings THEN "left"
    ELSE IF side \in RightSpellings THEN "right"
    ELSE "none"

\* The last call was insert, on a tree with a root, with a valid side.
InsertOnRooted == call.op = "insert" /\ pre.root # None /\ SlotOf(call.side) # "none"

\* The first node in pre-order with the manager's name, before the call.
FirstManager == FirstNamed(pre.heap, pre.root, call.manager)

\* The heap is the heap before the call plus one childless node named
\* employee in slot f of node m, and nothing else has changed.
AttachedAt(m, f, employee) ==
    /\ pre.heap[m][f] = None
    /\ heap[m][f] \notin DOMAIN pre.heap
    /\ DOMAIN heap = DOMAIN pre.heap \cup {heap[m][f]}
    /\ heap[heap[m][f]] = [name |-> employee, left |-> None, right |-> None]
    /\ heap[m] = [pre.heap[m] EXCEPT ![f] = heap[m][f]]
    /\ \A n \in DOMAIN pre.heap \ {m} : heap[n] = pre.heap[n]
    /\ root = pre.root

Unchanged == root = pre.root /\ heap = pre.heap

-----------------------------------------------------------------------------
(* Properties *)

\* C1: every insert that returns success has attached the new node to the
\* first node named manager_name in pre-order, and to no later node of that
\* name.
C1_SuccessAttachesAtFirstManager ==
    (call.op = "insert" /\ ret = TRUE) =>
        /\ FirstManager # None
        /\ AttachedAt(FirstManager, SlotOf(call.side), call.employee)

\* C2: on a rooted tree with a valid side, if the requested slot of the first
\* node named manager_name in pre-order is occupied, insert returns failure,
\* reports SlotOccupied with the occupant's name and nothing else, and the
\* search ends at that node.
C2_OccupiedFailsAtFirstManager ==
    (InsertOnRooted /\ FirstManager # None
       /\ pre.heap[FirstManager][SlotOf(call.side)] # None) =>
        /\ ret = FALSE
        /\ Len(out) = 1
        /\ out[1].kind = "SlotOccupied"
        /\ out[1].occupant = pre.heap[pre.heap[FirstManager][SlotOf(call.side)]].name
        /\ visited[Len(visited)] = FirstManager
        /\ Unchanged

\* C3: an insert that returns failure leaves the root and the heap as they
\* were: same nodes, same names, same links.
C3_FailureLeavesTreeUnchanged ==
    (call.op = "insert" /\ ret = FALSE) => Unchanged

\* C3 witness: a failed insert on a tree of three nodes or more that found
\* the slot of a node below the root occupied.
C3_Witness ==
    /\ call.op = "insert" /\ ret = FALSE
    /\ Cardinality(DOMAIN pre.heap) >= 3
    /\ Len(out) >= 1 /\ out[1].kind = "SlotOccupied"
    /\ FirstManager # pre.root

\* C4: on a rooted tree with a valid side, if the requested slot of the first
\* node M named manager_name in pre-order is empty, insert returns success,
\* prints nothing, and the tree is the old tree plus one childless node named
\* employee_name in that slot of M.
C4_EmptySlotAttaches ==
    (InsertOnRooted /\ FirstManager # None
       /\ pre.heap[FirstManager][SlotOf(call.side)] = None) =>
        /\ ret = TRUE
        /\ out = <<>>
        /\ AttachedAt(FirstManager, SlotOf(call.side), call.employee)

\* C4 witness: a successful insert under a node two links below the root.
C4_Witness ==
    /\ InsertOnRooted /\ ret = TRUE
    /\ FirstManager # None
    /\ pre.heap[FirstManager][SlotOf(call.side)] = None
    /\ Depth(pre.heap, pre.root, FirstManager) >= 2

\* C5: on a rooted tree with a valid side, if no node is named manager_name,
\* insert returns failure and prints ManagerNotFound exactly once and nothing
\* else, whatever the size and depth of the tree.
C5_NotFoundReportedOnce ==
    (InsertOnRooted /\ FirstManager = None) =>
        /\ ret = FALSE
        /\ out = <<[kind |-> "ManagerNotFound", manager |-> call.manager]>>

\* C5 witness: the manager is missing from a tree of four nodes or more, one
\* of them two links below the root.
C5_Witness ==
    /\ InsertOnRooted /\ FirstManager = None
    /\ Cardinality(DOMAIN pre.heap) >= 4
    /\ \E n \in DOMAIN pre.heap : Depth(pre.heap, pre.root, n) >= 2

\* C6: an insert prints at most one error and none when it succeeds, and it
\* prints ManagerNotFound only when no node is named manager_name.
C6_AtMostOneError ==
    call.op = "insert" =>
        /\ Len(out) <= 1
        /\ ret = TRUE => out = <<>>
        /\ (\E i \in 1..Len(out) : out[i].kind = "ManagerNotFound")
              => (pre.root # None /\ FirstManager = None)

\* C7: a side that reads left or right once trimmed and case-folded is
\* accepted and selects that slot; any other side, None included, makes
\* insert fail with InvalidSide alone and change nothing, with or without a
\* root and with or without the manager.
C7_SideValidation ==
    call.op = "insert" =>
        IF SlotOf(call.side) = "none"
        THEN ret = FALSE /\ out = <<[kind |-> "InvalidSide"]>> /\ Unchanged
        ELSE /\ \A i \in 1..Len(out) : out[i].kind # "InvalidSide"
             /\ ret = TRUE =>
                  \E m \in DOMAIN pre.heap :
                      AttachedAt(m, SlotOf(call.side), call.employee)
             /\ \A i \in 1..Len(out) :
                  out[i].kind = "SlotOccupied" =>
                      out[i].side = IF SlotOf(call.side) = "left"
                                    THEN <<"L", "E", "F", "T">>
                                    ELSE <<"R", "I", "G", "H", "T">>

\* C7 witness: a side with surrounding whitespace and capitals was accepted
\* and the node attached.
C7_Witness ==
    /\ call.op = "insert" /\ ret = TRUE
    /\ call.side \in {<<" ", "l", "e", "f", "t", " ">>,
                      <<"\t", "R", "I", "G", "H", "T", "\n">>}

\* C8: on a tree without a root, insert with a valid side returns failure,
\* prints NoRoot alone, and the tree still has no root and no node.
C8_NoRoot ==
    (call.op = "insert" /\ pre.root = None /\ SlotOf(call.side) # "none") =>
        /\ ret = FALSE
        /\ out = <<[kind |-> "NoRoot"]>>
        /\ root = None
        /\ DOMAIN heap = {}

\* C8 witness: insert with a valid side was called on a tree without a root.
C8_Witness ==
    call.op = "insert" /\ pre.root = None /\ SlotOf(call.side) # "none"

\* The number of spaces a line starts with.
LeadingSpaces(text) ==
    LET other == {i \in 1..Len(text) : text[i] # " "}
    IN  IF other = {} THEN Len(text)
        ELSE (CHOOSE i \in other : \A j \in other : i <= j) - 1

\* C9: print_tree on a rooted tree prints one line per node of the tree, in
\* pre-order, each indented by two spaces per link between the node and the
\* root, then "- " and the node's name.
C9_RenderPreOrder ==
    (call.op = "print_tree" /\ root # None) =>
        LET po == PreOrder(heap, root)
        IN  /\ Len(out) = Cardinality(DOMAIN heap)
            /\ Len(po) = Len(out)
            /\ \A n \in DOMAIN heap : \E i \in 1..Len(po) : po[i] = n
            /\ \A i \in 1..Len(out) :
                 LET d == Depth(heap, root, po[i])
                     t == out[i].text
                 IN  /\ out[i].kind = "Node"
                     /\ LeadingSpaces(t) = Len(IndentUnit) * d
                     /\ SubSeq(t, LeadingSpaces(t) + 1, Len(t))
                           = <<"-", " ">> \o heap[po[i]].name

\* C9 witness: print_tree ran on a tree of five nodes, one of them two links
\* or more below the root, that has a node with both slots filled.
C9_Witness ==
    /\ call.op = "print_tree" /\ root # None
    /\ Cardinality(DOMAIN heap) >= 5
    /\ \E n \in DOMAIN heap : Depth(heap, root, n) >= 2
    /\ \E n \in DOMAIN heap : heap[n].left # None /\ heap[n].right # None

\* C10: print_tree leaves the root and the heap as they were, on the empty
\* tree as on any other.
C10_RenderDoesNotMutate ==
    call.op = "print_tree" => Unchanged

\* C10 witness: print_tree ran on a tree of three nodes or more.
C10_Witness ==
    call.op = "print_tree" /\ Cardinality(DOMAIN pre.heap) >= 3 /\ Len(out) >= 3

\* What slot f of node n holds is a node of the heap.
ChildOf(h, n, f) == h[n][f] # None /\ h[n][f] \in DOMAIN h

\* The nodes that can be reached from the nodes of S by following links, the
\* nodes of S included.
RECURSIVE Reachable(_, _)
Reachable(h, S) ==
    LET T == S \cup {h[n].left : n \in {m \in S : ChildOf(h, m, "left")}}
               \cup {h[n].right : n \in {m \in S : ChildOf(h, m, "right")}}
    IN  IF T = S THEN S ELSE Reachable(h, T)

\* The slots <<parent, field>> that hold node n.
SlotsHolding(h, n) ==
    {pf \in (DOMAIN h) \X {"left", "right"} : h[pf[1]][pf[2]] = n}

\* The nodes below n: those reachable from its children.
Below(h, n) ==
    Reachable(h, {h[n][f] : f \in {g \in {"left", "right"} : ChildOf(h, n, g)}})

\* C11: an insert or a print_tree on a tree with a root leaves the root the
\* same node with the same name: the root is never replaced or removed and
\* the tree never becomes empty again.
C11_RootKept ==
    (call.op \in {"insert", "print_tree"} /\ pre.root # None) =>
        /\ root # None
        /\ root = pre.root
        /\ root \in DOMAIN heap
        /\ heap[root].name = pre.heap[pre.root].name

\* C11 witness: an insert attached a node under the root itself.
C11_Witness ==
    /\ call.op = "insert" /\ ret = TRUE
    /\ pre.root # None /\ pre.heap[pre.root].name = call.manager
    /\ Cardinality(DOMAIN pre.heap) >= 2

\* C12: with a root, the structure is a strict tree: every link leads to a
\* node, no node is below itself, no slot holds the root, every other node
\* is held by exactly one slot of one parent, and every node is reachable
\* from the root.
C12_StrictTree ==
    root # None =>
        /\ root \in DOMAIN heap
        /\ \A n \in DOMAIN heap, f \in {"left", "right"} :
              heap[n][f] # None => heap[n][f] \in DOMAIN heap
        /\ \A n \in DOMAIN heap : n \notin Below(heap, n)
        /\ SlotsHolding(heap, root) = {}
        /\ \A n \in DOMAIN heap \ {root} : Cardinality(SlotsHolding(heap, n)) = 1
        /\ Reachable(heap, {root}) = DOMAIN heap

\* C12 witness: five inserts have succeeded on a root, and some node has
\* both slots filled.
C12_Witness ==
    /\ call.op = "insert" /\ ret = TRUE
    /\ Cardinality(DOMAIN heap) >= 5
    /\ \E n \in DOMAIN heap : heap[n].left # None /\ heap[n].right # None

\* C13: insert only appends: every node is still there with its name, every
\* slot that held a node holds the same node, and the number of nodes grows
\* by one if insert returned success and not at all otherwise.
C13_AppendOnly ==
    call.op = "insert" =>
        /\ \A n \in DOMAIN pre.heap :
              /\ n \in DOMAIN heap
              /\ heap[n].name = pre.heap[n].name
              /\ \A f \in {"left", "right"} :
                    pre.heap[n][f] # None => heap[n][f] = pre.heap[n][f]
        /\ Cardinality(DOMAIN heap)
              = Cardinality(DOMAIN pre.heap) + (IF ret = TRUE THEN 1 ELSE 0)

\* C13 witness: an insert succeeded after another insert had found the slot
\* of a manager occupied.
C13_Witness ==
    /\ call.op = "insert" /\ ret = TRUE
    /\ Len(out) >= 1 /\ out[1].kind = "SlotOccupied"

\* C14: print_tree on a tree without a root prints the placeholder line and
\* nothing else; on a tree with a root it prints no placeholder, although
\* its recursion reaches absent children.
C14_Placeholder ==
    call.op = "print_tree" =>
        IF root = None
        THEN out = <<[kind |-> "Empty"]>>
        ELSE /\ \A i \in 1..Len(out) : out[i].kind # "Empty"
             /\ Len(out) >= 1

\* C14 witness: print_tree ran on a tree with a root that has a node with an
\* empty slot and a filled one.
C14_Witness ==
    /\ call.op = "print_tree" /\ root # None
    /\ \E n \in DOMAIN heap : heap[n].left = None /\ heap[n].right # None

\* The calls run frame by frame end as the calls run in one step do: same
\* heap, same value returned, same output, same nodes visited by insert.
StepAgrees ==
    stack = <<>> =>
        /\ call.op = "insert" =>
              LET res == InsertCall(pre.heap, pre.root, call.manager,
                                    call.employee, call.side)
              IN  /\ root = pre.root /\ heap = res.heap
                  /\ ret = res.ret /\ out = res.out /\ visited = res.visited
        /\ call.op = "print_tree" =>
              /\ Unchanged
              /\ out = PrintTreeRec(pre.heap, pre.root, None, 0)

\* No node has had two frames of the running call.
VisitedOnce ==
    /\ \A i \in 1..Len(visited), j \in 1..Len(visited) :
          i # j => visited[i] # visited[j]
    /\ \A i \in 1..Len(visited) : visited[i] \in DOMAIN pre.heap

\* The frames of the running call are no more than the nodes of the tree,
\* plus one for a frame on an absent node.
FramesBounded == Len(stack) <= Cardinality(DOMAIN pre.heap) + 1

\* What a frame still has to do: return (after its call on the right
\* child), call on the right child and then that, or everything.
FrameWork(f) ==
    IF f.pc = "right" THEN 2 ELSE IF f.pc = "left" THEN 4 ELSE 1

RECURSIVE StackWork(_)
StackWork(frames) ==
    IF frames = <<>> THEN 0
    ELSE FrameWork(frames[Len(frames)]) + StackWork(SubSeq(frames, 1, Len(frames) - 1))

\* A bound on the steps the running call has left: five for every node that
\* has had no frame yet, plus what the frames on the stack have left.
Rank == 5 * (Cardinality(DOMAIN pre.heap) - Len(visited)) + StackWork(stack)

\* C15: every insert and every print_tree terminates, with work bounded by
\* the size of the tree: while a call runs it can always take a step, every
\* step lowers Rank, which is 5 * nodes + 1 when the call starts and never
\* negative, no node gets a second frame, and the frames number no more than
\* the nodes plus one.
C15_TerminatesVisitingOnce ==
    /\ [](/\ VisitedOnce
          /\ FramesBounded
          /\ Rank >= 0
          /\ stack # <<>> => ENABLED Step)
    /\ [][stack # <<>> => Rank' < Rank]_vars

\* C15 witness: an insert has returned False from a tree of three nodes after
\* a frame on each of them.
C15_Witness ==
    /\ stack = <<>> /\ call.op = "insert"
    /\ Cardinality(DOMAIN pre.heap) >= 3
    /\ Len(visited) = Cardinality(DOMAIN pre.heap)
    /\ ret = FALSE

\* An answer that is the letter y, in either case, between whitespace.
NormalizesToY(answer) ==
    \E i \in 1..Len(answer) :
        /\ answer[i] \in {"y", "Y"}
        /\ \A j \in 1..Len(answer) : j # i => answer[j] \in Whitespace

\* A name that is empty once its whitespace is removed.
Blank(typed) == \A i \in 1..Len(typed) : typed[i] \in Whitespace

\* The name typed, without the whitespace around it (the names typed have
\* none inside).
NameTyped(typed) ==
    LET Kept(c) == c \notin Whitespace IN SelectSeq(typed, Kept)

\* C16: in the menu loop, option 1 on a tree that has a root replaces the
\* tree by a single childless root with the new name when the name is not
\* empty and the answer normalizes to y, and otherwise leaves the tree
\* unchanged; option 2 on a tree without a root does not call insert (no
\* result, no node visited, none of insert's messages) and leaves the tree
\* unchanged.
C16_MenuPolicy ==
    /\ (call.op = "add_team_lead" /\ pre.root # None) =>
          IF ~Blank(call.name) /\ NormalizesToY(call.confirm)
          THEN /\ root # None
               /\ DOMAIN heap = {root}
               /\ heap[root] = [name |-> NameTyped(call.name),
                                left |-> None, right |-> None]
          ELSE Unchanged
    /\ (call.op = "add_employee" /\ pre.root = None) =>
          /\ ret = None
          /\ visited = <<>>
          /\ out = <<MsgAddLeadFirst>>
          /\ Unchanged

\* C16 witness: a tree with children has been replaced, on an answer that is
\* not the bare letter y, by a lone root with another name.
C16_Witness ==
    /\ call.op = "add_team_lead"
    /\ pre.root # None
    /\ Cardinality(DOMAIN pre.heap) >= 2
    /\ call.confirm # Str_y
    /\ NormalizesToY(call.confirm)
    /\ DOMAIN heap = {root}
    /\ heap[root].name # pre.heap[pre.root].name

=============================================================================
